---- MODULE Spec2Model ----
(***************************************************************************)
(* natpmp-setup (src/main.rs): a client that acquires one NAT-PMP TCP port *)
(* mapping, writes "pid,port" to a file, and renews the mapping for ever.  *)
(*                                                                         *)
(* The program is one thread.  `pc' is the position of main, the query     *)
(* frame (qfn .. qres) is the running invocation of query_gateway or       *)
(* query_port, and the Natpmp client and the output file are the           *)
(* environment: every result of a send, of read_response_or_retry and of   *)
(* writeln! is chosen nondeterministically.                                *)
(***************************************************************************)
EXTENDS Integers, Sequences, FiniteSets, TLC

\* ---------------------------------------------------------------- bounds
\* Ports carried by responses are 0..MaxPort (u16 in the program).
MaxPort == 1
\* Granted lifetimes are 0..MaxLifetime seconds, and the requested 360 s.
MaxLifetime == 1
\* Epochs reported by the gateway are 0..MaxEpoch.
MaxEpoch == 1

\* ------------------------------------------------------ program constants
InitialTimeout == 250
MaxTimeout == 64000
RequestedLifetime == 360

\* ------------------------------------------------------------ value sets
Ports == 0..MaxPort
Lifetimes == (0..MaxLifetime) \cup {RequestedLifetime}

\* natpmp::MappingResponse: private_port(), public_port(), lifetime() [s].
MappingResponse == [private_port : Ports, public_port : Ports, lifetime : Lifetimes]
\* natpmp::GatewayResponse: public_address(), epoch().
GatewayResponse == [public_address : {"203.0.113.7"}, epoch : 0..MaxEpoch]

\* natpmp::Error values a read can return; all but NATPMP_TRYAGAIN are fatal.
TRYAGAIN == "NATPMP_TRYAGAIN"
ReadErrors == {TRYAGAIN, "NATPMP_ERR_RECVFROM"}
\* natpmp::Error values a send can return.
SendErrors == {"NATPMP_ERR_SENDERR"}

\* Result<(), Error> of send_public_address_request / send_port_mapping_request.
SendOutcomes == {[ok |-> TRUE, err |-> "none"]} \cup {[ok |-> FALSE, err |-> e] : e \in SendErrors}

\* Result<Response, Error> of read_response_or_retry.
ReadOutcomes ==
    {[tag |-> "Err", err |-> e] : e \in ReadErrors}
    \cup {[tag |-> "Gateway", gr |-> g] : g \in GatewayResponse}
    \cup {[tag |-> "TCP", m |-> m] : m \in MappingResponse}
    \cup {[tag |-> "UDP", m |-> m] : m \in MappingResponse}

NoRead == [tag |-> "none"]
NoSend == [ok |-> FALSE, err |-> "none"]
NoMapping == [private_port |-> -1, public_port |-> -1, lifetime |-> -1]
NoResult == [ok |-> FALSE, err |-> "none"]
NoRequest == [kind |-> "none"]

\* anyhow::Result values returned by the two queries.
OkResult(v) == [ok |-> TRUE, val |-> v]
\* `what' is the anyhow message, `cause' the natpmp::Error formatted into it.
ErrResult(what, cause) == [ok |-> FALSE, err |-> what, cause |-> cause]

VARIABLES
    pc,         \* position of main
    mr,         \* main: the held mapping (let mut mr)
    mr_,        \* main: the mapping obtained in this cycle (let mr_)
    renewRes,   \* main: the receiver of .or(..), the result of the renewal query
    qfn,        \* running query: "query_gateway", "query_port" or "none"
    internal,   \* query_port argument
    external,   \* query_port argument
    check,      \* query_port argument
    timeout,    \* the query's local `timeout'
    qpc,        \* position inside the query
    qres,       \* the value the query returned
    sends,      \* history: timeouts of the iterations of the latest invocation, in order
    nReads,     \* history: reads done by the latest invocation
    nTryAgain,  \* history: reads of the latest invocation that returned NATPMP_TRYAGAIN
    onlyMismatch, \* history: every read of the latest invocation was a TCP mapping
                \*          whose ports differ from the requested ones
    sendRes,    \* loop body: the Result of this iteration's send
    readRes,    \* loop body: the Result of this iteration's read_response_or_retry
    lastReq,    \* history: the request most recently handed to the transport
    notifyCalls,\* history: print_loop_info calls since the last renewal sleep began
    delivered,  \* history: the port of the most recent print_loop_info call
    slept,      \* history: duration [ms] of the most recent renewal sleep
    inLoop,     \* history: main has entered its renewal loop
    waited,     \* history: total [ms] slept inside the running invocation, kept
                \*          only in the behaviours that meter the waits
    metered     \* whether this behaviour meters the waits (fixed by the initial state)

mainVars == <<pc, mr, mr_, renewRes>>
frameVars == <<qfn, internal, external, check, timeout, qpc, qres>>
iterVars == <<sendRes, readRes>>
queryHist == <<sends, nReads, nTryAgain, onlyMismatch>>
mainHist == <<notifyCalls, delivered, slept, inLoop, metered>>
vars == <<pc, mr, mr_, renewRes, qfn, internal, external, check, timeout, qpc, qres,
          sendRes, readRes, sends, nReads, nTryAgain, lastReq,
          notifyCalls, delivered, slept, inLoop, onlyMismatch, waited, metered>>

\* ------------------------------------------------------- pure operators
\* Faulty variant of LoopCond: the ceiling itself is excluded.
LoopCondStrict(t) == t < MaxTimeout

\* Faulty variant of LoopCond: no ceiling.
LoopCondAlways(t) == TRUE

\* while timeout <= 64000
LoopCond(t) == t <= MaxTimeout

\* Faulty variant of NextTimeout: linear instead of exponential backoff.
NextTimeoutLinear(t) == t + InitialTimeout

\* timeout *= 2
NextTimeout(t) == t * 2

\* Faulty variant of IsTryAgain: the retry signal is handled like any other error.
IsTryAgainNever(e) == FALSE

\* if let Error::NATPMP_TRYAGAIN = e   /   Error::NATPMP_TRYAGAIN => ...
IsTryAgain(e) == e = TRYAGAIN

\* Faulty variant of Accept: the response is verified whatever `check' is.
AcceptAlwaysVerified(chk, tr, int, ext) ==
    /\ tr.private_port = int
    /\ tr.public_port = ext
    /\ tr.lifetime > 0

\* Faulty variant of Accept: the lifetime is not verified.
AcceptAnyLifetime(chk, tr, int, ext) ==
    \/ ~chk
    \/ /\ tr.private_port = int
       /\ tr.public_port = ext

\* Faulty variant of Accept: the ports are not verified.
AcceptPortsUnchecked(chk, tr, int, ext) ==
    \/ ~chk
    \/ tr.lifetime > 0

\* Faulty variant of Accept: the external port is not verified.
AcceptExternalUnchecked(chk, tr, int, ext) ==
    \/ ~chk
    \/ /\ tr.private_port = int
       /\ tr.lifetime > 0

\* !check || (private_port == internal && public_port == external && lifetime > 0)
Accept(chk, tr, int, ext) ==
    \/ ~chk
    \/ /\ tr.private_port = int
       /\ tr.public_port = ext
       /\ tr.lifetime > 0

\* Faulty variant of SleepDuration: half of the requested lifetime.
SleepDurationRequested(m) == (RequestedLifetime * 1000) \div 2

\* mr.lifetime() / 2, in milliseconds (Duration division is exact to the ns).
SleepDuration(m) == (m.lifetime * 1000) \div 2

\* Faulty variant of PortChanged: the internal ports are compared.
PortChangedPrivate(old, new) == old.private_port # new.private_port

\* Faulty variant of PortChanged: a change is never seen.
PortChangedNever(old, new) == FALSE

\* mr.public_port() != mr_.public_port()
PortChanged(old, new) == old.public_port # new.public_port

\* Faulty variant of NotifyPort: the internal port is written.
NotifyPortPrivate(m) == m.private_port

\* the port handed to print_loop_info
NotifyPort(m) == m.public_port

\* A read that is a TCP mapping whose ports are not the requested ones.
Mismatch(r, int, ext) ==
    /\ r.tag = "TCP"
    /\ (r.m.private_port # int \/ r.m.public_port # ext)

\* thread::sleep(Duration::from_millis(t)) inside a query: the time slept so far.
Slept(w, t) == IF metered THEN w + t ELSE w

\* Faulty variant of Or: the argument wins whatever the receiver is.
OrSecond(self, res) == res

\* Result::or: self when it is Ok, otherwise the argument.
Or(self, res) == IF self.ok THEN self ELSE res

\* ------------------------------------------------------- call and return
Call(fn, int, ext, chk) ==
    /\ qfn' = fn
    /\ internal' = int
    /\ external' = ext
    /\ check' = chk
    /\ timeout' = InitialTimeout
    /\ qpc' = "while"
    /\ qres' = NoResult
    /\ sends' = <<>>
    /\ nReads' = 0
    /\ nTryAgain' = 0
    /\ onlyMismatch' = TRUE
    /\ sendRes' = NoSend
    /\ readRes' = NoRead
    /\ waited' = 0

Return(r) ==
    /\ qpc' = "done"
    /\ qres' = r
    /\ UNCHANGED <<qfn, internal, external, check>>

\* The frame is dropped when the caller has taken the result; the history of
\* the invocation stays until the next call.
Pop ==
    /\ qfn' = "none"
    /\ internal' = 0
    /\ external' = 0
    /\ check' = FALSE
    /\ timeout' = 0
    /\ qpc' = "idle"
    /\ qres' = NoResult
    /\ sendRes' = NoSend
    /\ readRes' = NoRead
    /\ waited' = 0
    /\ UNCHANGED queryHist

Init ==
    /\ pc = "query_gateway"
    /\ mr = NoMapping
    /\ mr_ = NoMapping
    /\ renewRes = NoResult
    /\ qfn = "none"
    /\ internal = 0
    /\ external = 0
    /\ check = FALSE
    /\ timeout = 0
    /\ qpc = "idle"
    /\ qres = NoResult
    /\ sends = <<>>
    /\ nReads = 0
    /\ nTryAgain = 0
    /\ sendRes = NoSend
    /\ readRes = NoRead
    /\ lastReq = NoRequest
    /\ notifyCalls = 0
    /\ delivered = -1
    /\ slept = -1
    /\ inLoop = FALSE
    /\ onlyMismatch = TRUE
    /\ waited = 0
    /\ metered = FALSE

\* ---------------------------------------------------------- query_gateway
\* while timeout <= 64000 { ... }  bail!("Querying gateway failed!")
GwWhile ==
    /\ qfn = "query_gateway" /\ qpc = "while"
    /\ IF LoopCond(timeout)
         THEN /\ qpc' = "send"
              /\ UNCHANGED <<qfn, internal, external, check, qres>>
         ELSE Return(ErrResult("Querying gateway failed!", "none"))
    /\ UNCHANGED <<timeout, mainVars, iterVars, queryHist, lastReq, mainHist>>
    /\ UNCHANGED waited

\* n.send_public_address_request().map_err(..)?
GwSend ==
    /\ qfn = "query_gateway" /\ qpc = "send"
    /\ \E s \in SendOutcomes :
         /\ sends' = Append(sends, timeout)
         /\ lastReq' = [kind |-> "public_address"]
         /\ sendRes' = s
         /\ IF s.ok
              THEN /\ qpc' = "sleep"
                   /\ UNCHANGED <<qfn, internal, external, check, qres>>
              ELSE Return(ErrResult("Fail with", s.err))
    /\ UNCHANGED <<timeout, mainVars, nReads, nTryAgain, onlyMismatch, readRes, waited, mainHist>>

\* thread::sleep(Duration::from_millis(timeout))
GwSleep ==
    /\ qfn = "query_gateway" /\ qpc = "sleep"
    /\ qpc' = "read"
    /\ UNCHANGED <<qfn, internal, external, check, timeout, qres,
                   mainVars, iterVars, queryHist, lastReq, mainHist>>
    /\ waited' = Slept(waited, timeout)

\* Faulty variant of GwRead: a mapping response is logged and retried, as
\* query_port does.
GwReadRetrying ==
    /\ qfn = "query_gateway" /\ qpc = "read"
    /\ \E r \in ReadOutcomes :
         /\ onlyMismatch' = (onlyMismatch /\ Mismatch(r, internal, external))
         /\ readRes' = r
         /\ nReads' = nReads + 1
         /\ nTryAgain' = IF r.tag = "Err" /\ r.err = TRYAGAIN THEN nTryAgain + 1 ELSE nTryAgain
         /\ CASE r.tag = "Err" /\ ~IsTryAgain(r.err) ->
                   Return(ErrResult("Try again:", r.err))
              [] r.tag = "Gateway" ->
                   Return(OkResult(r.gr))
              [] OTHER ->
                   /\ qpc' = "double"
                   /\ UNCHANGED <<qfn, internal, external, check, qres>>
    /\ UNCHANGED <<timeout, mainVars, sendRes, sends, lastReq, mainHist>>
    /\ UNCHANGED waited

\* match n.read_response_or_retry() { ... }
GwRead ==
    /\ qfn = "query_gateway" /\ qpc = "read"
    /\ \E r \in ReadOutcomes :
         /\ onlyMismatch' = (onlyMismatch /\ Mismatch(r, internal, external))
         /\ readRes' = r
         /\ nReads' = nReads + 1
         /\ nTryAgain' = IF r.tag = "Err" /\ r.err = TRYAGAIN THEN nTryAgain + 1 ELSE nTryAgain
         /\ CASE r.tag = "Err" /\ IsTryAgain(r.err) ->
                   /\ qpc' = "double"
                   /\ UNCHANGED <<qfn, internal, external, check, qres>>
              [] r.tag = "Err" /\ ~IsTryAgain(r.err) ->
                   Return(ErrResult("Try again:", r.err))
              [] r.tag = "Gateway" ->
                   Return(OkResult(r.gr))
              [] OTHER ->
                   Return(ErrResult("Expecting a gateway response", "none"))
    /\ UNCHANGED <<timeout, mainVars, sendRes, sends, lastReq, mainHist>>
    /\ UNCHANGED waited

\* timeout *= 2; the results of this iteration's send and read go out of scope
GwDouble ==
    /\ qfn = "query_gateway" /\ qpc = "double"
    /\ timeout' = NextTimeout(timeout)
    /\ qpc' = "while"
    /\ sendRes' = NoSend
    /\ readRes' = NoRead
    /\ UNCHANGED <<qfn, internal, external, check, qres,
                   mainVars, queryHist, lastReq, mainHist>>
    /\ UNCHANGED waited

\* ------------------------------------------------------------- query_port
\* while timeout <= 64000 { ... }  bail!("Mapping failed after multiple attempts.")
QpWhile ==
    /\ qfn = "query_port" /\ qpc = "while"
    /\ IF LoopCond(timeout)
         THEN /\ qpc' = "send"
              /\ UNCHANGED <<qfn, internal, external, check, qres>>
         ELSE Return(ErrResult("Mapping failed after multiple attempts.", "none"))
    /\ UNCHANGED <<timeout, mainVars, iterVars, queryHist, lastReq, mainHist>>
    /\ UNCHANGED waited

\* let _ = n.send_port_mapping_request(Protocol::TCP, internal, external, 360).map_err(..);
\* The Result is bound to `_' and dropped: a failed send does not leave the loop.
QpSend ==
    /\ qfn = "query_port" /\ qpc = "send"
    /\ \E s \in SendOutcomes :
         /\ sends' = Append(sends, timeout)
         /\ lastReq' = [kind |-> "port_mapping", protocol |-> "TCP", internal |-> internal,
                        external |-> external, lifetime |-> RequestedLifetime]
         /\ sendRes' = s
         /\ qpc' = "sleep"
    /\ UNCHANGED <<qfn, internal, external, check, timeout, qres,
                   mainVars, nReads, nTryAgain, onlyMismatch, readRes, waited, mainHist>>

\* thread::sleep(Duration::from_millis(timeout))
QpSleep ==
    /\ qfn = "query_port" /\ qpc = "sleep"
    /\ qpc' = "read"
    /\ UNCHANGED <<qfn, internal, external, check, timeout, qres,
                   mainVars, iterVars, queryHist, lastReq, mainHist>>
    /\ waited' = Slept(waited, timeout)

\* Faulty variant of QpRead: a response that is no TCP mapping ends the query.
QpReadStrict ==
    /\ qfn = "query_port" /\ qpc = "read"
    /\ \E r \in ReadOutcomes :
         /\ onlyMismatch' = (onlyMismatch /\ Mismatch(r, internal, external))
         /\ waited' = IF r.tag = "Err" /\ IsTryAgain(r.err) THEN Slept(waited, timeout) ELSE waited
         /\ readRes' = r
         /\ nReads' = nReads + 1
         /\ nTryAgain' = IF r.tag = "Err" /\ r.err = TRYAGAIN THEN nTryAgain + 1 ELSE nTryAgain
         /\ CASE r.tag = "Err" /\ IsTryAgain(r.err) ->
                   /\ qpc' = "double"
                   /\ UNCHANGED <<qfn, internal, external, check, qres>>
              [] r.tag = "Err" /\ ~IsTryAgain(r.err) ->
                   Return(ErrResult("Error reading NAT-PMP response:", r.err))
              [] r.tag = "TCP" /\ Accept(check, r.m, internal, external) ->
                   Return(OkResult(r.m))
              [] r.tag = "TCP" /\ ~Accept(check, r.m, internal, external) ->
                   /\ qpc' = "double"
                   /\ UNCHANGED <<qfn, internal, external, check, qres>>
              [] OTHER ->
                   Return(ErrResult("Unexpected response", "none"))
    /\ UNCHANGED <<timeout, mainVars, sendRes, sends, lastReq, mainHist>>

\* match n.read_response_or_retry() { ... }
QpRead ==
    /\ qfn = "query_port" /\ qpc = "read"
    /\ \E r \in ReadOutcomes :
         /\ onlyMismatch' = (onlyMismatch /\ Mismatch(r, internal, external))
         \* on NATPMP_TRYAGAIN: thread::sleep(Duration::from_millis(timeout)) once more
         /\ waited' = IF r.tag = "Err" /\ IsTryAgain(r.err) THEN Slept(waited, timeout) ELSE waited
         /\ readRes' = r
         /\ nReads' = nReads + 1
         /\ nTryAgain' = IF r.tag = "Err" /\ r.err = TRYAGAIN THEN nTryAgain + 1 ELSE nTryAgain
         /\ CASE r.tag = "Err" /\ IsTryAgain(r.err) ->
                   /\ qpc' = "double"
                   /\ UNCHANGED <<qfn, internal, external, check, qres>>
              [] r.tag = "Err" /\ ~IsTryAgain(r.err) ->
                   Return(ErrResult("Error reading NAT-PMP response:", r.err))
              [] r.tag = "TCP" /\ Accept(check, r.m, internal, external) ->
                   Return(OkResult(r.m))
              [] OTHER ->
                   \* rejected TCP mapping, UDP mapping or public address: logged only
                   /\ qpc' = "double"
                   /\ UNCHANGED <<qfn, internal, external, check, qres>>
    /\ UNCHANGED <<timeout, mainVars, sendRes, sends, lastReq, mainHist>>

\* timeout *= 2; the results of this iteration's send and read go out of scope
QpDouble ==
    /\ qfn = "query_port" /\ qpc = "double"
    /\ timeout' = NextTimeout(timeout)
    /\ qpc' = "while"
    /\ sendRes' = NoSend
    /\ readRes' = NoRead
    /\ UNCHANGED <<qfn, internal, external, check, qres,
                   mainVars, queryHist, lastReq, mainHist>>
    /\ UNCHANGED waited

\* ------------------------------------------------------------------- main
\* let _ = query_gateway(&mut n)
MainQueryGateway ==
    /\ pc = "query_gateway" /\ qpc = "idle"
    /\ Call("query_gateway", 0, 0, FALSE)
    /\ pc' = "gateway_ret"
    /\ UNCHANGED <<mr, mr_, renewRes, lastReq, mainHist>>

\* .expect("Querying Public IP failed!")
MainGatewayReturn ==
    /\ pc = "gateway_ret" /\ qpc = "done"
    /\ pc' = IF qres.ok THEN "acquire" ELSE "panic"
    /\ Pop
    /\ UNCHANGED <<mr, mr_, renewRes, lastReq, mainHist>>

\* query_available_port(&mut n)  ==  query_port(n, 0, 0, false)
MainAcquire ==
    /\ pc = "acquire" /\ qpc = "idle"
    /\ Call("query_port", 0, 0, FALSE)
    /\ pc' = "acquire_ret"
    /\ UNCHANGED <<mr, mr_, renewRes, lastReq, mainHist>>

\* let mut mr = ... .expect("Querying a Port Mapping failed!")
MainAcquireReturn ==
    /\ pc = "acquire_ret" /\ qpc = "done"
    /\ IF qres.ok
         THEN /\ mr' = qres.val
              /\ pc' = "notify_initial"
         ELSE /\ mr' = mr
              /\ pc' = "panic"
    /\ Pop
    /\ UNCHANGED <<mr_, renewRes, lastReq, mainHist>>

\* print_loop_info(&mut file, mr.public_port()).expect(..)
MainNotifyInitial ==
    /\ pc = "notify_initial"
    /\ \E written \in BOOLEAN :
         pc' = IF written THEN "sleep" ELSE "panic"
    /\ notifyCalls' = notifyCalls + 1
    /\ delivered' = NotifyPort(mr)
    /\ UNCHANGED <<mr, mr_, renewRes, frameVars, iterVars, queryHist, lastReq, slept, inLoop, metered, waited>>

\* thread::sleep(mr.lifetime().clone() / 2)
MainSleep ==
    /\ pc = "sleep"
    /\ slept' = SleepDuration(mr)
    /\ notifyCalls' = 0
    /\ inLoop' = TRUE
    /\ pc' = "renew"
    /\ UNCHANGED <<mr, mr_, renewRes, frameVars, iterVars, queryHist, lastReq, delivered, metered, waited>>

\* query_port(&mut n, mr.private_port(), mr.public_port(), true)
MainRenew ==
    /\ pc = "renew" /\ qpc = "idle"
    /\ Call("query_port", mr.private_port, mr.public_port, TRUE)
    /\ pc' = "renew_ret"
    /\ UNCHANGED <<mr, mr_, renewRes, lastReq, mainHist>>

\* The receiver of .or(..) is evaluated; its argument is evaluated next.
MainRenewReturn ==
    /\ pc = "renew_ret" /\ qpc = "done"
    /\ renewRes' = qres
    /\ pc' = "fallback"
    /\ Pop
    /\ UNCHANGED <<mr, mr_, lastReq, mainHist>>

\* .or(query_available_port(&mut n)): Result::or takes its argument by value,
\* so the call is made whatever the receiver is.
MainFallback ==
    /\ pc = "fallback" /\ qpc = "idle"
    /\ Call("query_port", 0, 0, FALSE)
    /\ pc' = "fallback_ret"
    /\ UNCHANGED <<mr, mr_, renewRes, lastReq, mainHist>>

\* let mr_ = <receiver>.or(<argument>).expect("Every renewal method failed!")
MainFallbackReturn ==
    /\ pc = "fallback_ret" /\ qpc = "done"
    /\ LET r == Or(renewRes, qres) IN
         IF r.ok
           THEN /\ mr_' = r.val
                /\ pc' = "compare"
           ELSE /\ mr_' = mr_
                /\ pc' = "panic"
    /\ Pop
    /\ UNCHANGED <<mr, renewRes, lastReq, mainHist>>

\* if mr.public_port() != mr_.public_port()
MainCompare ==
    /\ pc = "compare"
    /\ pc' = IF PortChanged(mr, mr_) THEN "notify_change" ELSE "store"
    /\ UNCHANGED <<mr, mr_, renewRes, frameVars, iterVars, queryHist, lastReq, mainHist>>
    /\ UNCHANGED waited

\* print_loop_info(&mut file, mr_.public_port()).expect(..)
MainNotifyChange ==
    /\ pc = "notify_change"
    /\ \E written \in BOOLEAN :
         pc' = IF written THEN "store" ELSE "panic"
    /\ notifyCalls' = notifyCalls + 1
    /\ delivered' = NotifyPort(mr_)
    /\ UNCHANGED <<mr, mr_, renewRes, frameVars, iterVars, queryHist, lastReq, slept, inLoop, metered, waited>>

\* Faulty variant of MainStore: the ports are taken over, the lifetime is not.
MainStoreKeepLifetime ==
    /\ pc = "store"
    /\ mr' = [mr_ EXCEPT !.lifetime = mr.lifetime]
    /\ mr_' = NoMapping
    /\ renewRes' = NoResult
    /\ pc' = "sleep"
    /\ UNCHANGED <<frameVars, iterVars, queryHist, lastReq, mainHist>>
    /\ UNCHANGED waited

\* mr = mr_;  (end of the loop body)
MainStore ==
    /\ pc = "store"
    /\ mr' = mr_
    /\ mr_' = NoMapping
    /\ renewRes' = NoResult
    /\ pc' = "sleep"
    /\ UNCHANGED <<frameVars, iterVars, queryHist, lastReq, mainHist>>
    /\ UNCHANGED waited

Next ==
    \/ GwWhile \/ GwSend \/ GwSleep \/ GwRead \/ GwDouble
    \/ QpWhile \/ QpSend \/ QpSleep \/ QpRead \/ QpDouble
    \/ MainQueryGateway \/ MainGatewayReturn
    \/ MainAcquire \/ MainAcquireReturn \/ MainNotifyInitial
    \/ MainSleep \/ MainRenew \/ MainRenewReturn
    \/ MainFallback \/ MainFallbackReturn
    \/ MainCompare \/ MainNotifyChange \/ MainStore

Spec == Init /\ [][Next]_vars

\* The same program with the waits inside the queries metered.
InitMetered ==
    /\ pc = "query_gateway"
    /\ mr = NoMapping
    /\ mr_ = NoMapping
    /\ renewRes = NoResult
    /\ qfn = "none"
    /\ internal = 0
    /\ external = 0
    /\ check = FALSE
    /\ timeout = 0
    /\ qpc = "idle"
    /\ qres = NoResult
    /\ sends = <<>>
    /\ nReads = 0
    /\ nTryAgain = 0
    /\ onlyMismatch = TRUE
    /\ sendRes = NoSend
    /\ readRes = NoRead
    /\ lastReq = NoRequest
    /\ notifyCalls = 0
    /\ delivered = -1
    /\ slept = -1
    /\ inLoop = FALSE
    /\ waited = 0
    /\ metered = TRUE

SpecMetered == InitMetered /\ [][Next]_vars

TypeOK ==
    /\ pc \in {"query_gateway", "gateway_ret", "acquire", "acquire_ret", "notify_initial",
               "sleep", "renew", "renew_ret", "fallback", "fallback_ret", "compare",
               "notify_change", "store", "panic"}
    /\ qpc \in {"idle", "while", "send", "sleep", "read", "double", "done"}
    /\ mr \in MappingResponse \cup {NoMapping}
    /\ mr_ \in MappingResponse \cup {NoMapping}
    /\ Len(sends) <= 9

\* ------------------------------------------------------------------ claims
ExhaustedMessages == {"Querying gateway failed!", "Mapping failed after multiple attempts."}
InIteration == qpc \in {"send", "sleep", "read", "double"}
Failed == qpc = "done" /\ ~qres.ok
Exhausted == Failed /\ qres.err \in ExhaustedMessages
TryAgainRead == readRes.tag = "Err" /\ readRes.err = "NATPMP_TRYAGAIN"
FatalRead == readRes.tag = "Err" /\ readRes.err # "NATPMP_TRYAGAIN"
FatalSend == ~sendRes.ok /\ sendRes.err # "none"

\* C1: in every invocation of query_gateway and query_port the first iteration
\* runs with timeout 250 ms, every later iteration with twice the timeout of
\* the one before, no send, wait or read runs with a timeout above 64000 ms,
\* and the loop gives up only after the iteration with timeout 64000 ms, which
\* is the ninth and last one.
C1_BackoffSchedule ==
    /\ InIteration => timeout <= 64000
    /\ qpc \in {"sleep", "read", "double"} => timeout = sends[Len(sends)]
    /\ Len(sends) >= 1 => sends[1] = 250
    /\ \A i \in 1..(Len(sends) - 1) : sends[i + 1] = 2 * sends[i]
    /\ \A i \in 1..Len(sends) : sends[i] <= 64000 /\ (sends[i] = 64000 => i = Len(sends))
    /\ Exhausted => Len(sends) = 9 /\ sends[9] = 64000

C1_Witness ==
    /\ qfn = "query_gateway" /\ qpc = "read"
    /\ Len(sends) = 9 /\ timeout = 64000

\* C2: a NATPMP_TRYAGAIN read never ends a query: the query goes on to double
\* its timeout; a query whose reads all returned NATPMP_TRYAGAIN (and whose
\* send did not fail) can fail only by running past the 64000 ms ceiling; and
\* no query returns NATPMP_TRYAGAIN as its failure.
C2_TryAgainNeverTerminates ==
    /\ TryAgainRead => qpc = "double" /\ qres = NoResult
    /\ (qpc = "while" /\ nTryAgain = nReads) => timeout = 250 * 2^nReads
    /\ (Failed /\ nTryAgain = nReads /\ ~FatalSend) =>
          /\ qres.err \in ExhaustedMessages
          /\ timeout > 64000
          /\ nTryAgain = 9
    /\ Failed => qres.cause # "NATPMP_TRYAGAIN"

C2_Witness ==
    /\ qfn = "query_port" /\ qpc = "done" /\ ~qres.ok
    /\ nTryAgain = 9 /\ nReads = 9

\* C3: in query_gateway and in query_port a send or a read that returns an
\* error other than NATPMP_TRYAGAIN ends the query at once with a failure: no
\* wait, read or send follows it and nothing is returned as a success.
C3_FatalErrorTerminates ==
    (qfn \in {"query_gateway", "query_port"} /\ (FatalSend \/ FatalRead)) =>
        qpc = "done" /\ ~qres.ok

\* C4: query_port in fresh-acquisition mode (check = false, internal = 0,
\* external = 0) returns on the first TCP mapping response it reads, whatever
\* its ports and lifetime are, and returns exactly that response.
C4_FreshAcceptsFirstTCP ==
    (qfn = "query_port" /\ ~check) =>
        /\ internal = 0 /\ external = 0
        /\ readRes.tag = "TCP" => qpc = "done" /\ qres = [ok |-> TRUE, val |-> readRes.m]
        /\ (qpc = "done" /\ qres.ok) => readRes.tag = "TCP" /\ qres.val = readRes.m

C4_Witness ==
    /\ qfn = "query_port" /\ ~check /\ qpc = "done" /\ qres.ok
    /\ nReads = 2
    /\ qres.val.lifetime = 0 /\ qres.val.private_port # 0 /\ qres.val.public_port # 0

\* C5: query_port in verify mode (check = true) returns a TCP mapping response
\* only if its internal port and its external port are the requested ones and
\* its lifetime is above 0; a TCP response failing one of the three is not
\* returned and the query goes on to its next backoff iteration.
C5_VerifyReturnsOnlyMatching ==
    (qfn = "query_port" /\ check) =>
        /\ (qpc = "done" /\ qres.ok) =>
              /\ readRes.tag = "TCP" /\ qres.val = readRes.m
              /\ qres.val.private_port = internal
              /\ qres.val.public_port = external
              /\ qres.val.lifetime > 0
        /\ ( /\ readRes.tag = "TCP"
             /\ \/ readRes.m.private_port # internal
                \/ readRes.m.public_port # external
                \/ readRes.m.lifetime <= 0 ) =>
              qpc = "double" /\ qres = NoResult
        /\ pc = "renew_ret" /\ internal = mr.private_port /\ external = mr.public_port

C5_Witness ==
    /\ qfn = "query_port" /\ check /\ qpc = "double"
    /\ readRes.tag = "TCP"
    /\ readRes.m.private_port = internal /\ readRes.m.public_port = external
    /\ readRes.m.lifetime = 0

\* C6: in a renewal cycle the fresh-acquisition query (internal = 0,
\* external = 0, check = false) runs only if the verify-mode renewal query of
\* the cycle failed: in a cycle whose renewal query succeeded it is not
\* invoked and sends no request.
C6_FallbackOnlyAfterFailedRenewal ==
    (inLoop /\ renewRes.ok) =>
        /\ pc # "fallback_ret"
        /\ ~(qfn = "query_port" /\ ~check /\ Len(sends) > 0)

\* C7: in a renewal cycle print_loop_info is not called when the mapping
\* obtained in the cycle has the external port of the held mapping, and is
\* called exactly once, with the new external port, when it has another one.
C7_NotifyIffPortChanged ==
    /\ notifyCalls <= 1
    /\ pc \in {"renew", "renew_ret", "fallback", "fallback_ret", "compare", "notify_change"} =>
          notifyCalls = 0
    /\ (pc \in {"store", "panic"} /\ inLoop /\ mr_ # NoMapping) =>
          IF mr_.public_port = mr.public_port
            THEN notifyCalls = 0
            ELSE notifyCalls = 1 /\ delivered = mr_.public_port
    /\ (pc = "panic" /\ inLoop /\ mr_ = NoMapping) => notifyCalls = 0

C7_Witness ==
    /\ pc = "store" /\ notifyCalls = 1
    /\ mr_.public_port # mr.public_port /\ delivered = mr_.public_port

\* C8: when the first read of the initial fresh-acquisition query is a TCP
\* mapping the query returns it after that single iteration; and between the
\* success of the initial acquisition and the first renewal sleep
\* print_loop_info is called exactly once, with the mapping's external port.
C8_InitialNotifyOnce ==
    /\ (pc = "acquire_ret" /\ nReads = 1 /\ readRes.tag = "TCP") =>
          /\ qpc = "done" /\ qres = [ok |-> TRUE, val |-> readRes.m]
          /\ sends = <<250>>
    /\ (~inLoop /\ pc \in {"query_gateway", "gateway_ret", "acquire", "acquire_ret",
                           "notify_initial"}) => notifyCalls = 0
    /\ (~inLoop /\ pc = "sleep") => notifyCalls = 1 /\ delivered = mr.public_port
    /\ ~inLoop => slept = -1

C8_Witness ==
    /\ ~inLoop /\ pc = "sleep"
    /\ sends = <<250>> /\ nTryAgain = 0
    /\ notifyCalls = 1 /\ delivered = mr.public_port /\ mr.public_port # mr.private_port

\* C9: the renewal sleep that precedes a renewal request lasts exactly half of
\* the lifetime of the mapping held at that moment.
C9_SleepHalfLifetime ==
    pc \in {"renew", "renew_ret", "fallback", "fallback_ret", "compare", "notify_change",
            "store"} =>
        /\ 2 * slept = 1000 * mr.lifetime
        /\ (pc = "renew_ret" /\ Len(sends) > 0) =>
              lastReq = [kind |-> "port_mapping", protocol |-> "TCP",
                         internal |-> mr.private_port, external |-> mr.public_port,
                         lifetime |-> 360]

C9_Witness ==
    /\ pc = "renew_ret" /\ Len(sends) = 1 /\ qpc = "sleep"
    /\ mr.lifetime = 1 /\ slept = 500

\* C10: when the first k reads of a query_port invocation return
\* NATPMP_TRYAGAIN and read k+1 is an accepted TCP mapping (k+1 <= 9), the
\* invocation makes exactly k+1 sends, with timeouts 250, 500, .., 250*2^k ms,
\* and returns that mapping; for k = 2 the timeouts are 250, 500, 1000 ms.
C10_TryAgainThenAccept ==
    (qfn = "query_port" /\ qpc = "done" /\ qres.ok /\ nTryAgain = nReads - 1) =>
        /\ nReads <= 9
        /\ Len(sends) = nReads
        /\ \A i \in 1..Len(sends) : sends[i] = 250 * 2^(i - 1)
        /\ qres.val = readRes.m
        /\ nTryAgain = 2 => sends = <<250, 500, 1000>>

C10_Witness ==
    /\ qfn = "query_port" /\ qpc = "done" /\ qres.ok
    /\ nTryAgain = 2 /\ nReads = 3 /\ sends = <<250, 500, 1000>>

MismatchRead ==
    /\ readRes.tag = "TCP"
    /\ (readRes.m.private_port # internal \/ readRes.m.public_port # external)
ExhaustedHistory == nReads = 9 /\ Len(sends) = 9 /\ sends[9] = 64000

\* C11: when every response read by a verify-mode renewal query is a TCP
\* mapping whose ports are not the expected ones, no iteration returns a
\* mapping, the query fails only after the iteration with timeout 64000 ms,
\* and main then runs a fresh-acquisition query (internal = 0, external = 0,
\* check = false) in the same cycle.
C11_MismatchExhaustsThenFallback ==
    /\ [](/\ (qfn = "query_port" /\ check /\ MismatchRead) =>
                qpc = "double" /\ qres = NoResult
          /\ (pc = "renew_ret" /\ qpc = "done" /\ onlyMismatch /\ nReads > 0) =>
                /\ ~qres.ok /\ qres.err = "Mapping failed after multiple attempts."
                /\ ExhaustedHistory
          /\ (pc = "fallback" /\ onlyMismatch /\ nReads > 0) =>
                /\ ~renewRes.ok /\ renewRes.err = "Mapping failed after multiple attempts."
                /\ ExhaustedHistory
          /\ pc = "fallback_ret" =>
                qfn = "query_port" /\ ~check /\ internal = 0 /\ external = 0)
    /\ [][(pc = "renew_ret" /\ pc' # pc) => pc' = "fallback"]_vars
    /\ [][(pc = "fallback" /\ pc' # pc) =>
             /\ pc' = "fallback_ret"
             /\ qfn' = "query_port" /\ ~check' /\ internal' = 0 /\ external' = 0
             /\ qpc' = "while"]_vars

C11_Witness ==
    /\ pc = "fallback" /\ inLoop
    /\ onlyMismatch /\ nReads = 9
    /\ ~renewRes.ok /\ renewRes.err = "Mapping failed after multiple attempts."

\* C12: a failed renewal query alone never ends main; in a renewal cycle main
\* ends (panics) exactly when the renewal query and the fresh-acquisition
\* query of the cycle both failed, or when print_loop_info failed; after that
\* no request is sent and print_loop_info is not called.
C12_FatalOnlyWhenBothFail ==
    /\ [][pc = "renew_ret" => pc' # "panic"]_vars
    /\ [][(pc = "fallback_ret" /\ pc' # pc) =>
             (pc' = "panic" <=> (~renewRes.ok /\ ~qres.ok))]_vars
    /\ [][(inLoop /\ pc # "panic" /\ pc' = "panic") =>
             pc \in {"fallback_ret", "notify_change"}]_vars
    /\ [][pc = "panic" =>
             UNCHANGED <<pc, lastReq, sends, nReads, notifyCalls, delivered, qpc>>]_vars

C12_Witness ==
    /\ pc = "panic" /\ inLoop /\ notifyCalls = 0
    /\ ~renewRes.ok /\ renewRes.err # "none"
    /\ mr_ = NoMapping

\* C13: in query_gateway a read that returns a TCP or UDP mapping response
\* makes the query fail in that iteration, with no further send, wait or read
\* and without doubling the timeout; a public-address response is returned
\* as the result, with its address and epoch.
C13_GatewayUnexpectedResponseFatal ==
    qfn = "query_gateway" =>
        /\ readRes.tag \in {"TCP", "UDP"} =>
              /\ qpc = "done" /\ ~qres.ok /\ qres.err = "Expecting a gateway response"
              /\ timeout = sends[Len(sends)] /\ Len(sends) = nReads
        /\ readRes.tag = "Gateway" =>
              qpc = "done" /\ qres = [ok |-> TRUE, val |-> readRes.gr]
        /\ (qpc = "done" /\ qres.ok) => readRes.tag = "Gateway"

C13_Witness ==
    /\ qfn = "query_gateway" /\ qpc = "done" /\ ~qres.ok
    /\ readRes.tag = "UDP" /\ nReads = 2 /\ timeout = 500

\* C14: in every invocation of query_gateway or query_port, whatever the
\* transport returns, the waits done inside the invocation add up to at most
\* 250 + 500 + .. + 64000 = 127750 ms.
C14_WaitsBounded ==
    qfn \in {"query_gateway", "query_port"} => waited <= 127750

\* C15: in query_port, in fresh-acquisition and in verify mode, a read that
\* returns a UDP mapping or a public-address response neither ends the query
\* nor is returned: the query goes on to double its timeout (one backoff
\* iteration is used up) and ends only with an accepted TCP mapping, with a
\* fatal read error, or past the 64000 ms ceiling.
C15_NonTcpResponseRetried ==
    qfn = "query_port" =>
        /\ readRes.tag \in {"UDP", "Gateway"} => qpc = "double" /\ qres = NoResult
        /\ qpc = "while" => timeout = 250 * 2^nReads
        /\ (qpc = "done" /\ qres.ok) => readRes.tag = "TCP" /\ qres.val = readRes.m
        /\ (qpc = "done" /\ ~qres.ok) =>
              \/ FatalRead
              \/ /\ qres.err = "Mapping failed after multiple attempts."
                 /\ timeout > 64000

C15_Witness ==
    /\ qfn = "query_port" /\ check /\ qpc = "double"
    /\ readRes.tag = "Gateway" /\ nReads = 2 /\ nTryAgain = 0

\* Steps a running invocation has left at most: five per iteration not yet
\* begun, plus the rest of the current one.
Running == qpc \in {"while", "send", "sleep", "read", "double"}
Rank ==
    IF ~Running THEN 0
    ELSE LET iter == IF qpc \in {"while", "send"} THEN Len(sends) ELSE Len(sends) - 1
             pos == CASE qpc = "while" -> 5
                      [] qpc = "send" -> 4
                      [] qpc = "sleep" -> 3
                      [] qpc = "read" -> 2
                      [] qpc = "double" -> 1
         IN 5 * (9 - iter) + pos

\* C16: every invocation of query_gateway or query_port ends, whatever the
\* transport returns: it makes at most 9 send/wait/read iterations, every one
\* of its steps brings it nearer to its return and it is never stuck, and
\* when none of the 9 iterations returns it ends with the failure after the
\* loop instead of iterating again.
C16_QueryTerminates ==
    /\ [](/\ Len(sends) <= 9 /\ nReads <= 9
          /\ Rank >= 0
          /\ Running => ENABLED Next
          /\ (qpc = "while" /\ Len(sends) = 9) => timeout > 64000
          /\ Exhausted => Len(sends) = 9 /\ nReads = 9)
    /\ [][Running => (Rank' < Rank /\ qpc' \in {"while", "send", "sleep", "read", "double", "done"})]_vars
    /\ [][(qpc = "while" /\ Len(sends) = 9) => (qpc' = "done" /\ ~qres'.ok)]_vars

C16_Witness ==
    /\ qfn = "query_gateway" /\ qpc = "done" /\ ~qres.ok
    /\ qres.err = "Querying gateway failed!" /\ nReads = 9

\* C17: at the end of every renewal cycle that does not end main, the held
\* mapping becomes the mapping obtained in the cycle, with its internal port,
\* external port and lifetime, whether or not the external port changed; the
\* next sleep uses its lifetime and the next renewal request its ports.
C17_HeldMappingReplaced ==
    /\ [][pc = "store" => (pc' = "sleep" /\ mr' = mr_)]_vars
    /\ [](/\ pc = "store" =>
                /\ mr_ \in MappingResponse
                /\ renewRes.ok => mr_ = renewRes.val
          /\ pc \in {"renew", "renew_ret"} => 2 * slept = 1000 * mr.lifetime
          /\ pc = "renew_ret" =>
                check /\ internal = mr.private_port /\ external = mr.public_port)

C17_Witness ==
    /\ pc = "sleep" /\ inLoop /\ notifyCalls = 0
    /\ 2 * slept # 1000 * mr.lifetime

\* C18: whenever main is about to begin a renewal sleep, the port of the most
\* recent print_loop_info call is the external port of the held mapping.
C18_DeliveredIsHeldPort ==
    pc = "sleep" => delivered = mr.public_port

C18_Witness ==
    /\ pc = "sleep" /\ inLoop /\ notifyCalls = 1
    /\ delivered = mr.public_port

\* C19 (as stated): the held mapping always has a lifetime above 0, whether
\* it came from the initial acquisition, a renewal or a fallback acquisition.
C19_HeldLifetimePositive ==
    mr # NoMapping => mr.lifetime > 0

\* C19 (amended): a mapping taken from a successful verify-mode renewal has a
\* lifetime above 0; a mapping from the initial or a fallback fresh
\* acquisition is held with whatever lifetime it carries, 0 included, and the
\* renewal sleep is then half of that, possibly 0.
C19_RenewedLifetimePositive ==
    /\ mr # NoMapping => mr.lifetime >= 0
    /\ inLoop => 2 * slept >= 0
    /\ (pc = "renew_ret" /\ qpc = "done" /\ qres.ok) => qres.val.lifetime > 0
    /\ (pc \in {"compare", "notify_change", "store"} /\ renewRes.ok) =>
          mr_ = renewRes.val /\ mr_.lifetime > 0

C19_Witness ==
    /\ pc = "store" /\ renewRes.ok
    /\ mr.lifetime = 0 /\ slept = 0 /\ mr_.lifetime > 0

\* C20: a verify-mode renewal query that succeeds yields a mapping with the
\* external port of the held mapping, so print_loop_info is called in a
\* renewal cycle only when the renewal query of the cycle failed.
C20_NotifyOnlyAfterFailedRenewal ==
    /\ (pc = "renew_ret" /\ qpc = "done" /\ qres.ok) => qres.val.public_port = mr.public_port
    /\ renewRes.ok => renewRes.val.public_port = mr.public_port
    /\ pc = "notify_change" => ~renewRes.ok
    /\ (inLoop /\ notifyCalls >= 1 /\ pc \in {"store", "panic"}) =>
          ~renewRes.ok /\ renewRes.err # "none"

C20_Witness ==
    /\ pc = "store" /\ notifyCalls = 1
    /\ ~renewRes.ok /\ renewRes.err # "none"
    /\ mr_.public_port # mr.public_port
====
